---- MODULE Spec2Model ----
(***************************************************************************)
(* A model of src/main.go: the Ollama installer.  main() resolves the      *)
(* latest release tag, builds the download URL and calls installOllama,    *)
(* which shells out to curl, tar, mv and chmod and finally calls           *)
(* updatePath to put `export PATH="$HOME/bin:$PATH"` into one of four      *)
(* shell configuration files.                                              *)
(*                                                                         *)
(* The filesystem below the directory the code's paths resolve to          *)
(* (filepath.Join(homeDir, ...)) is the state; whether the home directory  *)
(* can be looked up is a property of the environment the program is run    *)
(* in, the same in every run, so the paths of all runs name the same       *)
(* files.  Every operating-system call or child process whose error the    *)
(* code receives is an input that may succeed or fail; what the code does  *)
(* with the error (returns, ignores) is translated from the source.        *)
(***************************************************************************)
EXTENDS Integers, Sequences, FiniteSets, TLC

VARIABLES
    pc,          \* position in main/installOllama
    run,         \* number of the current invocation of the program
    body,        \* kind of HTTP response body received by getLatestOllamaVersion
    version,     \* value returned by getLatestOllamaVersion
    url,         \* value returned by getDownloadURL
    homeSet,     \* whether the OS can tell the home directory ($HOME is set)
    homeDir,     \* homeDir of installOllama
    archive,     \* the file tempFile = <homeDir>/ollama.tgz
    binDir,      \* whether the directory <homeDir>/bin exists
    scratch,     \* the directory tempDir = <homeDir>/ollama-extract
    binary,      \* the file finalPath = <homeDir>/bin/ollama
    binary0,     \* finalPath as it was when the current invocation started
    files,       \* the four candidate shell configuration files
    files0,      \* the candidate files in the initial state
    pre,         \* the candidate files when the last updatePath call started
    tried,       \* what the last updatePath call did with each candidate
    pathResult,  \* what the last updatePath call returned
    pathRuns,    \* number of updatePath calls made (SpecPath)
    trace,       \* steps executed by the current invocation, with their outcome
    result,      \* what installOllama returned
    warned       \* whether the "Warning: Failed to update PATH" line was printed

vars == <<pc, run, body, version, url, homeSet, homeDir, archive, binDir, scratch, binary,
          binary0, files, files0, pre, tried, pathResult, pathRuns, trace, result, warned>>

(***************************************************************************)
(* Bounds                                                                  *)
(***************************************************************************)
MaxRuns == 2

MaxPathRuns == 2

(***************************************************************************)
(* Shell configuration files                                               *)
(***************************************************************************)
\* configFiles, in the order of the slice.
configFiles == <<".zshrc", ".bash_profile", ".bashrc", ".profile">>

Files == {configFiles[i] : i \in 1..Len(configFiles)}

\* A line of a file, by what the code can tell about it: "export" contains
\* pathExport; "toolong" is longer than bufio.Scanner's 64 KiB token limit (and
\* does not contain pathExport); "text" and "blank" are any other lines.
LineKinds == {"blank", "text", "export", "toolong"}

Absent == [exists |-> FALSE, lines |-> <<>>, readable |-> FALSE]

NewFile == [exists |-> TRUE, lines |-> <<>>, readable |-> TRUE]

\* strings.Contains(scanner.Text(), pathExport)
ContainsExport(line) == line = "export"

\* for scanner.Scan() { if strings.Contains(...) { return nil } }: Scan()
\* returns false at the end of the file and at the first line over the token
\* limit (ErrTooLong, which the code does not look at).
RECURSIVE ScanFrom(_, _)
ScanFrom(lines, i) ==
    IF i > Len(lines) THEN FALSE
    ELSE IF lines[i] = "toolong" THEN FALSE
    ELSE IF ContainsExport(lines[i]) THEN TRUE
    ELSE ScanFrom(lines, i + 1)

\* os.Open(configPath) succeeded and the scan met a line holding pathExport.
ScanFinds(f) == f.exists /\ f.readable /\ ScanFrom(f.lines, 1)

\* The first loop of updatePath: some candidate is found to hold the line.
AlreadyPresent(fs) == \E c \in Files : ScanFinds(fs[c])

\* fileExists: os.Stat succeeds.
fileExists(fs, c) == fs[c].exists

Outcomes == {"ok", "openfail", "writefail"}

\* appendToFile with O_CREATE left out of the flags: an absent file is not
\* created and cannot be written.
appendToFileMissesCreate(fs, c, o) ==
    IF o = "ok" /\ fs[c].exists
    THEN [fs EXCEPT ![c].lines = @ \o <<"blank", "export">>]
    ELSE fs

\* appendToFile(filePath, content) with the outcome o of its two system calls:
\* OpenFile(O_APPEND|O_CREATE|O_WRONLY) creates the file when it is absent
\* (mode 0644); WriteString adds "\n" + content + "\n", here to a file that is
\* empty or ends with a newline, and is taken to write nothing when it fails.
appendToFile(fs, c, o) ==
    IF o = "openfail" THEN fs
    ELSE LET opened == IF fs[c].exists THEN fs ELSE [fs EXCEPT ![c] = NewFile]
         IN  IF o = "writefail" THEN opened
             ELSE [opened EXCEPT ![c].lines = @ \o <<"blank", "export">>]

\* The outcomes of one call's appends.  The first append that succeeds ends
\* updatePath, so the outcomes of the candidates after it are never used and
\* are fixed at "ok".
AppendOutcomes ==
    {out \in [Files -> Outcomes] :
        \A i \in 1..Len(configFiles), j \in 1..Len(configFiles) :
            (i < j /\ out[configFiles[i]] = "ok") => out[configFiles[j]] = "ok"}

NotTried == [c \in Files |-> "none"]

\* The second half of updatePath, from candidate number i on: .zshrc is tried
\* only when it exists, the other three unconditionally; the first append that
\* returns no error ends the function.
RECURSIVE AppendFrom(_, _, _, _)
AppendFrom(fs, out, i, log) ==
    IF i > Len(configFiles)
    THEN [files |-> fs, result |-> "err", tried |-> log]
    ELSE LET c == configFiles[i]
         IN  IF i = 1 /\ ~fileExists(fs, c)
             THEN AppendFrom(fs, out, i + 1, [log EXCEPT ![c] = "skip"])
             ELSE LET fs2 == appendToFile(fs, c, out[c])
                      log2 == [log EXCEPT ![c] = out[c]]
                  IN  IF out[c] = "ok"
                      THEN [files |-> fs2, result |-> "ok", tried |-> log2]
                      ELSE AppendFrom(fs2, out, i + 1, log2)

\* updatePath(homeDir), with the outcome out[c] the append to candidate c has
\* if it is attempted.
updatePath(fs, out) ==
    IF AlreadyPresent(fs)
    THEN [files |-> fs, result |-> "ok", tried |-> NotTried]
    ELSE AppendFrom(fs, out, 1, NotTried)


(***************************************************************************)
(* Version Resolver and URL Builder                                        *)
(***************************************************************************)
Tag == "v0.5.2"

\* What http.Get hands to the decoder: "neterr" is a failed request; the
\* others are response bodies, by their JSON shape.
Bodies == {"neterr", "invalid", "array", "null", "object_no_tag",
           "object_tag_number", "object_tag_null", "object_tag_string"}

\* json.NewDecoder(resp.Body).Decode(&release) into GitHubRelease: text that
\* is not JSON, a JSON array, and a tag_name that is not a string are errors;
\* JSON null and an object without tag_name (or with a null one) decode
\* without error and leave TagName at its zero value "".
Decode(b) ==
    CASE b = "object_tag_string" -> [tag |-> Tag, err |-> FALSE]
      [] b \in {"null", "object_no_tag", "object_tag_null"} -> [tag |-> "", err |-> FALSE]
      [] OTHER -> [tag |-> "", err |-> TRUE]

\* getLatestOllamaVersion, given what the request produced.
getLatestOllamaVersion(b) ==
    IF b = "neterr" THEN [tag |-> "", err |-> TRUE] ELSE Decode(b)

\* getDownloadURL(version)
getDownloadURL(v) ==
    <<"https://github.com/ollama/ollama/releases/download/", v, "/ollama-linux-amd64.tgz">>

NoURL == <<>>

(***************************************************************************)
(* The filesystem installOllama works on                                   *)
(***************************************************************************)
NoArchive == [kind |-> "absent", ver |-> 0]

NoScratch == [exists |-> FALSE, bin |-> 0, lib |-> FALSE]

EmptyScratch == [exists |-> TRUE, bin |-> 0, lib |-> FALSE]

NoBinary == [ver |-> 0, exec |-> FALSE]

\* What curl leaves at tempFile when it exits 0: an archive holding
\* bin/ollama, an archive without it, or something that is no archive (curl -L
\* without -f saves an error page and exits 0).
ArchiveKinds == {"good", "nobin", "junk"}

Step(name, ok) == <<name, ok>>

Ran(name) == \E i \in 1..Len(trace) : trace[i][1] = name

Failed(name) == \E i \in 1..Len(trace) : trace[i] = Step(name, FALSE)

Succeeded(name) == \E i \in 1..Len(trace) : trace[i] = Step(name, TRUE)

\* return fmt.Errorf(...) from installOllama; main prints and returns.
ReturnError ==
    /\ result' = "err"
    /\ pc' = "done"

\* installOllama going on to mv whatever tar's exit status.
extractNextIgnoresError(ok) == "mv"

\* Where installOllama goes after the tar child exits: on to mv, or out with
\* "failed to extract".
extractNext(ok) == IF ok THEN "mv" ELSE "done"

\* installOllama returning updatePath's error instead of printing the warning.
installReturnPropagates(pathRes) == IF pathRes = "err" THEN "err" ELSE "ok"

\* What installOllama returns after updatePath returned pathRes: nil.
installReturn(pathRes) == "ok"

(***************************************************************************)
(* Initial states                                                          *)
(***************************************************************************)
\* Contents the candidate files start with.
InitLines == {<<>>, <<"export">>, <<"toolong">>}

\* A file that cannot be opened for reading matters to the code only by the
\* lines it holds that the scan would otherwise have found.
InitFileStates ==
    {Absent} \cup [exists : {TRUE}, lines : InitLines, readable : {TRUE}]
             \cup {[exists |-> TRUE, lines |-> <<"export">>, readable |-> FALSE]}

\* Homes the whole pipeline is run in.
InstallHomes ==
    {fs \in [Files -> {Absent, NewFile, [NewFile EXCEPT !.lines = <<"export">>]}] :
        /\ Cardinality({c \in Files : fs[c].exists}) <= 1
        /\ \A c \in Files : fs[c].exists => c \in {".zshrc", ".bashrc"}}

InitCommon ==
    /\ run = 1
    /\ body = "none"
    /\ version = [tag |-> "", err |-> FALSE]
    /\ url = NoURL
    /\ homeDir = "unset"
    /\ archive = NoArchive
    /\ binDir \in BOOLEAN
    /\ scratch = NoScratch
    /\ binary = NoBinary
    /\ binary0 = binary
    /\ files0 = files
    /\ pre = files
    /\ tried = NotTried
    /\ pathResult = "none"
    /\ pathRuns = 0
    /\ trace = <<>>
    /\ result = "none"
    /\ warned = FALSE

Init ==
    /\ pc = "main"
    /\ homeSet \in BOOLEAN
    /\ files \in InstallHomes
    /\ InitCommon

(***************************************************************************)
(* main and installOllama, one action per step                             *)
(***************************************************************************)
fsVars == <<archive, binDir, scratch, binary>>

pathVars == <<files, pre, tried, pathResult, pathRuns, warned>>

constVars == <<run, homeSet, binary0, files0>>

\* main: version, err := getLatestOllamaVersion(); on error print and return.
GetVersion ==
    /\ pc = "main"
    /\ \E b \in Bodies :
        /\ body' = b
        /\ version' = getLatestOllamaVersion(b)
        /\ trace' = Append(trace, Step("version", ~getLatestOllamaVersion(b).err))
        /\ pc' = IF getLatestOllamaVersion(b).err THEN "done" ELSE "geturl"
    /\ UNCHANGED <<url, homeDir, result, fsVars, pathVars, constVars>>

\* main: url := getDownloadURL(version); installOllama(url) begins.
BuildURL ==
    /\ pc = "geturl"
    /\ url' = getDownloadURL(version.tag)
    /\ trace' = Append(trace, Step("url", TRUE))
    /\ pc' = "home"
    /\ UNCHANGED <<body, version, homeDir, result, fsVars, pathVars, constVars>>

\* homeDir, _ := os.UserHomeDir(): on error homeDir is "" and the error is dropped.
ResolveHome ==
    /\ pc = "home"
    /\ homeDir' = IF homeSet THEN "/home/u" ELSE ""
    /\ trace' = Append(trace, Step("home", homeSet))
    /\ pc' = "curl"
    /\ UNCHANGED <<body, version, url, result, fsVars, pathVars, constVars>>

\* curl -L -# url -o tempFile
Download ==
    /\ pc = "curl"
    /\ \/ \E k \in ArchiveKinds :
            /\ archive' = [kind |-> k, ver |-> run]
            /\ trace' = Append(trace, Step("curl", TRUE))
            /\ pc' = "mkbin"
            /\ UNCHANGED result
       \/ /\ archive' \in {archive, [kind |-> "junk", ver |-> run]}
          /\ trace' = Append(trace, Step("curl", FALSE))
          /\ ReturnError
    /\ UNCHANGED <<body, version, url, homeDir, binDir, scratch, binary, pathVars, constVars>>

\* os.MkdirAll(binDir, 0755): nil when the directory is there already.
MakeBinDir ==
    /\ pc = "mkbin"
    /\ \/ /\ binDir' = TRUE
          /\ trace' = Append(trace, Step("mkbin", TRUE))
          /\ pc' = "rmscratch"
          /\ UNCHANGED result
       \/ /\ ~binDir
          /\ binDir' = binDir
          /\ trace' = Append(trace, Step("mkbin", FALSE))
          /\ ReturnError
    /\ UNCHANGED <<body, version, url, homeDir, archive, scratch, binary, pathVars, constVars>>

\* os.RemoveAll(tempDir): the error is dropped.
RemoveScratch ==
    /\ pc = "rmscratch"
    /\ \/ /\ scratch' = NoScratch
          /\ trace' = Append(trace, Step("rmscratch", TRUE))
       \/ /\ scratch.exists
          /\ scratch' = scratch
          /\ trace' = Append(trace, Step("rmscratch", FALSE))
    /\ pc' = "mkscratch"
    /\ UNCHANGED <<body, version, url, homeDir, result, archive, binDir, binary, pathVars, constVars>>

\* os.MkdirAll(tempDir, 0755): the error is dropped.
MakeScratch ==
    /\ pc = "mkscratch"
    /\ \/ /\ scratch' = IF scratch.exists THEN scratch ELSE EmptyScratch
          /\ trace' = Append(trace, Step("mkscratch", TRUE))
       \/ /\ ~scratch.exists
          /\ scratch' = scratch
          /\ trace' = Append(trace, Step("mkscratch", FALSE))
    /\ pc' = "tar"
    /\ UNCHANGED <<body, version, url, homeDir, result, archive, binDir, binary, pathVars, constVars>>

\* tar -xzf tempFile -C tempDir: exits 0 only for an archive and an existing
\* target directory; members it extracts replace those already there.
Extract ==
    /\ pc = "tar"
    /\ \/ /\ archive.kind \in {"good", "nobin"}
          /\ scratch.exists
          /\ scratch' = [exists |-> TRUE,
                         bin |-> IF archive.kind = "good" THEN archive.ver ELSE scratch.bin,
                         lib |-> TRUE]
          /\ trace' = Append(trace, Step("tar", TRUE))
          /\ pc' = extractNext(TRUE)
          /\ UNCHANGED result
       \/ /\ scratch' \in {scratch} \cup
                 (IF scratch.exists /\ archive.kind \in {"good", "nobin"}
                  THEN {[scratch EXCEPT !.lib = TRUE]} ELSE {})
          /\ trace' = Append(trace, Step("tar", FALSE))
          /\ pc' = extractNext(FALSE)
          /\ result' = IF extractNext(FALSE) = "done" THEN "err" ELSE result
    /\ UNCHANGED <<body, version, url, homeDir, archive, binDir, binary, pathVars, constVars>>

\* mv tempDir/bin/ollama finalPath
Move ==
    /\ pc = "mv"
    /\ \/ /\ scratch.exists /\ scratch.bin # 0
          /\ \E x \in BOOLEAN : binary' = [ver |-> scratch.bin, exec |-> x]
          /\ scratch' = [scratch EXCEPT !.bin = 0]
          /\ trace' = Append(trace, Step("mv", TRUE))
          /\ pc' = "chmod"
          /\ UNCHANGED result
       \/ /\ UNCHANGED <<scratch, binary>>
          /\ trace' = Append(trace, Step("mv", FALSE))
          /\ ReturnError
    /\ UNCHANGED <<body, version, url, homeDir, archive, binDir, pathVars, constVars>>

\* chmod +x finalPath
Chmod ==
    /\ pc = "chmod"
    /\ \/ /\ binary.ver # 0
          /\ binary' = [binary EXCEPT !.exec = TRUE]
          /\ trace' = Append(trace, Step("chmod", TRUE))
          /\ pc' = "cleanup"
          /\ UNCHANGED result
       \/ /\ UNCHANGED binary
          /\ trace' = Append(trace, Step("chmod", FALSE))
          /\ ReturnError
    /\ UNCHANGED <<body, version, url, homeDir, archive, binDir, scratch, pathVars, constVars>>

\* os.Remove(tempFile); os.RemoveAll(tempDir): both errors are dropped.
Cleanup ==
    /\ pc = "cleanup"
    /\ \E rmFile \in BOOLEAN, rmDir \in BOOLEAN :
        /\ archive' = IF rmFile THEN NoArchive ELSE archive
        /\ scratch' = IF rmDir THEN NoScratch ELSE scratch
        /\ trace' = Append(trace, Step("cleanup", rmFile /\ rmDir))
    /\ pc' = "path"
    /\ UNCHANGED <<body, version, url, homeDir, result, binDir, binary, pathVars, constVars>>

\* if err := updatePath(homeDir); err != nil { print warning }; return nil
UpdatePathStep ==
    /\ pc = "path"
    /\ \E out \in AppendOutcomes :
        LET r == updatePath(files, out)
        IN  /\ pre' = files
            /\ files' = r.files
            /\ tried' = r.tried
            /\ pathResult' = r.result
            /\ warned' = (r.result = "err")
            /\ trace' = Append(trace, Step("updatePath", r.result = "ok"))
            /\ result' = installReturn(r.result)
    /\ pc' = "done"
    /\ UNCHANGED <<body, version, url, homeDir, fsVars, pathRuns, constVars>>

\* The user runs the program again in the home the last run left behind.
RunAgain ==
    /\ pc = "done"
    /\ run < MaxRuns
    /\ run' = run + 1
    /\ pc' = "main"
    /\ body' = "none"
    /\ version' = [tag |-> "", err |-> FALSE]
    /\ url' = NoURL
    /\ homeDir' = "unset"
    /\ binary0' = binary
    /\ trace' = <<>>
    /\ result' = "none"
    /\ warned' = FALSE
    /\ pathResult' = "none"
    /\ tried' = NotTried
    /\ pre' = files
    /\ UNCHANGED <<fsVars, files, files0, pathRuns, homeSet>>

Next ==
    \/ GetVersion
    \/ BuildURL
    \/ ResolveHome
    \/ Download
    \/ MakeBinDir
    \/ RemoveScratch
    \/ MakeScratch
    \/ Extract
    \/ Move
    \/ Chmod
    \/ Cleanup
    \/ UpdatePathStep
    \/ RunAgain

Spec == Init /\ [][Next]_vars

(***************************************************************************)
(* updatePath on its own, called repeatedly on one home directory          *)
(***************************************************************************)
InitPath ==
    /\ pc = "path"
    /\ files \in [Files -> InitFileStates]
    /\ homeSet = TRUE
    /\ InitCommon
    /\ binDir = TRUE

CallUpdatePath ==
    /\ pathRuns < MaxPathRuns
    /\ \E out \in AppendOutcomes :
        LET r == updatePath(files, out)
        IN  /\ pre' = files
            /\ files' = r.files
            /\ tried' = r.tried
            /\ pathResult' = r.result
    /\ pathRuns' = pathRuns + 1
    /\ UNCHANGED <<pc, run, body, version, url, homeSet, homeDir, fsVars, binary0, files0,
                   trace, result, warned>>

NextPath == CallUpdatePath

SpecPath == InitPath /\ [][NextPath]_vars

(***************************************************************************)
(* Properties of updatePath (checked under SpecPath)                       *)
(***************************************************************************)
\* The file holds a line containing the export string.
HasExport(f) == f.exists /\ \E i \in 1..Len(f.lines) : f.lines[i] = "export"

NoExport(fs) == \A c \in Files : ~HasExport(fs[c])

\* Number of lines containing the export string in one file, in all of them.
Occurrences(f) == Cardinality({i \in 1..Len(f.lines) : f.lines[i] = "export"})

RECURSIVE TotalFrom(_, _)
TotalFrom(fs, i) ==
    IF i > Len(configFiles) THEN 0
    ELSE Occurrences(fs[configFiles[i]]) + TotalFrom(fs, i + 1)

TotalOccurrences(fs) == TotalFrom(fs, 1)

\* Candidate c holds, after the call, what it held before plus the blank line
\* and the export line.
Received(c) ==
    /\ files[c].exists
    /\ files[c].lines = pre[c].lines \o <<"blank", "export">>

Index(c) == CHOOSE i \in 1..Len(configFiles) : configFiles[i] = c

\* C1: starting from candidate files none of which contains the export line,
\* after two calls of updatePath there is exactly one occurrence of the line in
\* the four files together, and the second call wrote nothing.  Stated for
\* the runs whose first call did append the line (one occurrence when the
\* second call starts).
C1_TwoRunsOneLine ==
    (pathRuns = 2 /\ NoExport(files0) /\ TotalOccurrences(pre) = 1) =>
        (TotalOccurrences(files) = 1 /\ files = pre)

\* C3 as stated: when no candidate contains the export line, the line goes to
\* the first candidate in the fixed order that exists, a missing candidate is
\* skipped, and no candidate other than the last, .profile, is created.
C3_OnlyProfileCreated ==
    (pathRuns >= 1 /\ NoExport(pre)) =>
        \A c \in Files \ {".profile"} : ~pre[c].exists => ~files[c].exists

\* C3 as amended: when no candidate contains the export line, the line goes
\* to .zshrc if .zshrc exists and its append succeeds, and otherwise to the
\* first of .bash_profile, .bashrc, .profile, in that order, whose append
\* succeeds; .zshrc is the only candidate skipped when absent and is never
\* created, each of the other three is created when absent; a candidate whose
\* append fails is passed over for the next one; the call succeeds exactly
\* when some candidate received the line.
C3_FirstSuccessfulAppend ==
    (pathRuns >= 1 /\ NoExport(pre)) =>
        /\ files[".zshrc"].exists = pre[".zshrc"].exists
        /\ (tried[".zshrc"] = "skip") = ~pre[".zshrc"].exists
        /\ \A c \in Files :
            /\ (tried[c] = "ok") = Received(c)
            /\ tried[c] = "skip" => c = ".zshrc"
            /\ tried[c] = "ok" =>
                 \A d \in Files :
                    /\ Index(d) < Index(c) => tried[d] \in {"skip", "openfail", "writefail"}
                    /\ Index(d) > Index(c) => (tried[d] = "none" /\ files[d] = pre[d])
            /\ tried[c] = "none" =>
                 \E d \in Files : Index(d) < Index(c) /\ tried[d] = "ok"
        /\ (pathResult = "ok") = (\E c \in Files : tried[c] = "ok")

\* C3's case: nothing exists, and .bash_profile is created to take the line.
C3_Witness ==
    /\ pathRuns >= 1
    /\ NoExport(pre)
    /\ \A c \in Files : ~pre[c].exists
    /\ tried[".zshrc"] = "skip"
    /\ tried[".bash_profile"] = "ok"
    /\ files[".bash_profile"].lines = <<"blank", "export">>

\* C4: a call of updatePath creates or changes at most one candidate file,
\* and a failed append leaves its target as it was.
C4_AtMostOneFileMutated ==
    pathRuns >= 1 =>
        /\ Cardinality({c \in Files : files[c] # pre[c]}) <= 1
        /\ \A c \in Files : tried[c] \in {"openfail", "writefail"} => files[c] = pre[c]

\* C5: if some candidate file exists and has a line containing the export
\* string, updatePath returns success and writes to no file.
C5_PresentMeansNoWrite ==
    (pathRuns >= 1 /\ ~NoExport(pre)) => (pathResult = "ok" /\ files = pre)

(***************************************************************************)
(* Properties of the pipeline (checked under Spec)                         *)
(***************************************************************************)
\* C2: if curl or tar exits nonzero, installOllama has returned an error, mv
\* and chmod were not run, and finalPath is as it was when the run started.
C2_NoInstallAfterFailedFetch ==
    (Failed("curl") \/ Failed("tar")) =>
        /\ pc = "done"
        /\ result = "err"
        /\ ~Ran("mv")
        /\ ~Ran("chmod")
        /\ binary = binary0

\* C2's case: a second run whose extraction fails, over an installed binary.
C2_Witness ==
    /\ Failed("tar")
    /\ run = 2
    /\ binary0.ver = 1
    /\ scratch.exists

\* C6: when download, bin-directory creation, extraction, relocate and chmod
\* all succeeded, installOllama returns success with an executable binary at
\* finalPath, whatever updatePath returned; an updatePath error only prints
\* the warning.
C6_PathFailureNotFatal ==
    (pc = "done" /\ Succeeded("curl") /\ Succeeded("mkbin") /\ Succeeded("tar")
                 /\ Succeeded("mv") /\ Succeeded("chmod")) =>
        /\ result = "ok"
        /\ binary.ver # 0
        /\ binary.exec
        /\ Ran("updatePath")
        /\ warned = (pathResult = "err")

\* C6's case: every append of updatePath failed and the install succeeded.
C6_Witness ==
    /\ pc = "done"
    /\ Succeeded("chmod")
    /\ pathResult = "err"
    /\ warned
    /\ result = "ok"
    /\ binary.exec

\* C7: a failure of any step other than updatePath (and the best-effort
\* cleanup) is the last thing the run does, and what the earlier steps did
\* stays: after a failed extraction the downloaded archive is still there.
C7_FailureStopsPipeline ==
    /\ \A i \in 1..Len(trace) :
         (~trace[i][2] /\ trace[i][1] \notin {"updatePath", "cleanup"}) =>
             (i = Len(trace) /\ pc = "done")
    /\ Failed("tar") => archive.kind # "absent"

\* C8: getLatestOllamaVersion returns a version only for a body that is a
\* JSON object with a string tag; otherwise it returns an error and main
\* builds no URL and starts no download.
C8_VersionOnlyFromExpectedShape ==
    Ran("version") =>
        /\ ~version.err => body = "object_tag_string"
        /\ body # "object_tag_string" =>
              (version.err /\ url = NoURL /\ ~Ran("curl") /\ pc = "done")

\* C9: if the home-directory lookup fails, installOllama stops there: no
\* download, directory, extraction, relocate, chmod or PATH step runs.
C9_UnresolvedHomeIsFatal ==
    Failed("home") =>
        /\ ~Ran("curl")
        /\ ~Ran("mkbin")
        /\ ~Ran("rmscratch")
        /\ ~Ran("mkscratch")
        /\ ~Ran("tar")
        /\ ~Ran("mv")
        /\ ~Ran("chmod")
        /\ ~Ran("updatePath")

\* C10: when extraction starts the scratch directory exists and is empty, and
\* a binary that mv put at finalPath comes from the archive of the current run.
C10_ScratchEmptyAtExtraction ==
    /\ pc = "tar" => scratch = EmptyScratch
    /\ Succeeded("mv") => binary.ver = run

====
